---- MODULE Spec2Model ----
(***************************************************************************)
(* Model of the multi-stage retrieval pipeline of EmailRAGService          *)
(* (backend/src/rag/rag_service.py): vector lookup, hybrid (vector + BM25) *)
(* combination, distance threshold, cross-encoder reranking, MMR and the   *)
(* orchestration of these stages in advanced_search.                       *)
(*                                                                         *)
(* Numbers.  Distances, BM25 scores and cross-encoder scores are integers. *)
(* A hybrid score is the exact rational <<num, den>> (den > 0).  Cosine    *)
(* similarities are exact integers scaled by CosScale (all embeddings of   *)
(* the model have an integer norm), weights and lambda are in tenths.      *)
(* An optional dict entry is <<>> (absent) or <<v>> (present).             *)
(***************************************************************************)
EXTENDS Integers, Sequences, FiniteSets, TLC

VARIABLES
    BM25_AVAILABLE,   \* module flag set by the import of rank_bm25
    corpus,           \* the collection, in the vector index's rank order for the query
    bm25_indices,     \* self._bm25_indices[collection]: <<>> or <<[documents, ids]>>
    pc,               \* position of the running call
    call,             \* entry point of the running call
    cfg,              \* the call's local cfg
    results,          \* the call's local results
    stages,           \* stage functions entered by the call, in order
    args,             \* the call's explicit arguments other than the candidate list
    vector_status,    \* how the call's vector lookup ended: "none", "ok", "missing", "raised"
    stage_in,         \* argument list of the last stage function entered
    stage_out,        \* list returned by the last stage function entered
    scorer,           \* last use of the pairwise scorer: [status, asked]
    outcome,          \* what the call gave back to its caller: [kind, value]
    self_config,      \* self.config of the shared service instance
    threads,          \* the locals of each concurrently running call, per thread
    builds,           \* history: every index tuple a _build_bm25_index call has built
    wf,               \* the email-processing graph run: its node and its state dict
    sent,             \* the replies n8n_tools.send_email was invoked with, in order
    build_log         \* history: how each direct _build_bm25_index call ended, in order

\* the request threads and set_config
concurrent_vars == <<self_config, threads, builds>>

\* the email-processing workflow
workflow_vars == <<wf, sent>>

vars == <<BM25_AVAILABLE, corpus, bm25_indices, pc, call, cfg, results, stages,
          args, vector_status, stage_in, stage_out, scorer, outcome,
          concurrent_vars, workflow_vars, build_log>>

----------------------------------------------------------------------------
(* Bounds of the model *)

MaxDocs == 3        \* documents in the collection
MaxK == 2           \* largest final_top_k
MaxPool == 4        \* longest candidate list handed directly to the reranker or to MMR
MaxFilterPool == 5  \* longest candidate list handed directly to the threshold filter
MaxEmails == 2      \* emails a fetch can bring in, and approved replies of a graph run
MaxBuilds == 3      \* direct calls of the index build in a row

----------------------------------------------------------------------------
(* Generic helpers *)

Absent == <<>>

Some(v) == <<v>>

Min(a, b) == IF a <= b THEN a ELSE b

Take(s, n) == SubSeq(s, 1, Min(Len(s), n))

RECURSIVE Filter(_, _)
Filter(s, keep) ==
    IF s = <<>> THEN <<>>
    ELSE IF keep[Head(s)] THEN <<Head(s)>> \o Filter(Tail(s), keep)
         ELSE Filter(Tail(s), keep)

RECURSIVE SeqMax(_)
SeqMax(s) ==
    IF Len(s) = 1 THEN s[1]
    ELSE LET m == SeqMax(Tail(s)) IN IF s[1] >= m THEN s[1] ELSE m

Ids(s) == [i \in 1..Len(s) |-> s[i].id]

\* Exact rationals <<num, den>> with den > 0
RatGT(a, b) == a[1] * b[2] > b[1] * a[2]

RatEq(a, b) == a[1] * b[2] = b[1] * a[2]

\* sorted(s, key, reverse=True): Python's sort is stable, so elements with equal
\* keys keep their input order.  gt[i][j] says key(s[i]) > key(s[j]).
StableSortDesc(s, gt) ==
    LET n == Len(s)
        pos(i) == 1 + Cardinality({j \in 1..n : gt[j][i]})
                    + Cardinality({j \in 1..(i - 1) : ~gt[j][i] /\ ~gt[i][j]})
    IN [p \in 1..n |-> s[CHOOSE i \in 1..n : pos(i) = p]]

----------------------------------------------------------------------------
(* The external models, as tables over the texts of the model.  Text 0 is   *)
(* the empty text; a candidate whose text is 0 fails `if r.get('text')`.    *)

Texts == {0, 1, 2, 3}

CorpusTexts == {0, 1, 2}

\* SentenceTransformer.encode: the embedding of a text
embed_text(t) ==
    CASE t = 1 -> <<4, 3>>
      [] t = 2 -> <<3, 4>>
      [] t = 3 -> <<4, -3>>
      [] OTHER -> <<0, 1>>

\* the embedding of the query text
QueryEmbedding == <<1, 0>>

\* CrossEncoder.predict on the pair (query, text)
CrossScore(t) ==
    CASE t = 1 -> 1
      [] t = 2 -> 3
      [] t = 3 -> -2
      [] OTHER -> 0

\* BM25Okapi.get_scores: the raw score of a document text for the query
Bm25Score(t) ==
    CASE t = 2 -> 4
      [] t = 3 -> 2
      [] OTHER -> 0

----------------------------------------------------------------------------
(* Candidates: the dicts built by search_similar_emails, with the entries   *)
(* later stages add.                                                        *)

Candidate(id, text, distance) ==
    [id |-> id, text |-> text, distance |-> distance,
     hybrid_score |-> Absent, vector_score |-> Absent, bm25_score |-> Absent,
     cross_encoder_score |-> Absent, mmr_score |-> Absent]

\* r.get('text') is truthy
HasText(r) == r.text # 0

\* A document of the collection as the vector index reports it
Doc(id, text, distance) == [id |-> id, text |-> text, distance |-> distance]

----------------------------------------------------------------------------
(* search_similar_emails: the mandatory vector path.  status is what the    *)
(* external index does: "ok", "missing" (get_collection returns None) or    *)
(* "raised" (embedding or collection.query raises).                         *)

VectorStatuses == {"ok", "missing", "raised"}

search_similar_emails(status, coll, n_results) ==
    IF status = "missing" THEN <<>>
    ELSE IF status = "raised" THEN <<>>
    ELSE LET top == Take(coll, n_results)
         IN [i \in 1..Len(top) |-> Candidate(top[i].id, top[i].text, Some(top[i].distance))]

----------------------------------------------------------------------------
(* _apply_threshold *)

\* r.get('distance', float('inf')) <= threshold
WithinThreshold(r, threshold) ==
    IF r.distance = Absent THEN FALSE ELSE r.distance[1] <= threshold

\* The comparison written < instead of <=
apply_threshold_strict(rs, threshold) ==
    Filter(rs, [r \in {rs[i] : i \in 1..Len(rs)} |->
                   r.distance # Absent /\ r.distance[1] < threshold])

apply_threshold(rs, threshold) ==
    Filter(rs, [r \in {rs[i] : i \in 1..Len(rs)} |-> WithinThreshold(r, threshold)])

----------------------------------------------------------------------------
(* _build_bm25_index: the cached lexical index of the collection.  An index *)
(* is the tuple (bm25, documents, ids); bm25 is determined by documents.    *)

Bm25Index(coll) ==
    [documents |-> [i \in 1..Len(coll) |-> coll[i].text],
     ids |-> [i \in 1..Len(coll) |-> coll[i].id]]

\* The build without its `if not documents: return None`
build_bm25_index_noguard(avail, cache, status, build_ok, coll) ==
    IF ~avail THEN [data |-> Absent, cache |-> cache]
    ELSE IF cache # Absent THEN [data |-> cache, cache |-> cache]
    ELSE IF status = "missing" THEN [data |-> Absent, cache |-> cache]
    ELSE IF ~build_ok THEN [data |-> Absent, cache |-> cache]
    ELSE [data |-> Some(Bm25Index(coll)), cache |-> Some(Bm25Index(coll))]

\* A build that hands its tuple back without storing it in the cache
build_bm25_index_unstored(avail, cache, status, build_ok, coll) ==
    IF ~avail THEN [data |-> Absent, cache |-> cache]
    ELSE IF cache # Absent THEN [data |-> cache, cache |-> cache]
    ELSE IF status = "missing" THEN [data |-> Absent, cache |-> cache]
    ELSE IF ~build_ok THEN [data |-> Absent, cache |-> cache]
    ELSE IF coll = <<>> THEN [data |-> Absent, cache |-> cache]
    ELSE [data |-> Some(Bm25Index(coll)), cache |-> cache]

\* The return statement a _build_bm25_index call leaves through
build_exit(avail, cache, status, build_ok, coll) ==
    IF ~avail THEN "unavailable"
    ELSE IF cache # Absent THEN "cached"
    ELSE IF status = "missing" THEN "missing"
    ELSE IF ~build_ok THEN "raised"
    ELSE IF coll = <<>> THEN "empty"
    ELSE "built"

\* Returns the tuple handed back (data: <<>> for None) and the cache afterwards
build_bm25_index(avail, cache, status, build_ok, coll) ==
    IF ~avail THEN [data |-> Absent, cache |-> cache]
    ELSE IF cache # Absent THEN [data |-> cache, cache |-> cache]
    ELSE IF status = "missing" THEN [data |-> Absent, cache |-> cache]
    ELSE IF ~build_ok THEN [data |-> Absent, cache |-> cache]
    ELSE IF coll = <<>> THEN [data |-> Absent, cache |-> cache]
    ELSE [data |-> Some(Bm25Index(coll)), cache |-> Some(Bm25Index(coll))]

----------------------------------------------------------------------------
(* _hybrid_search *)

\* max_bm25 = max(bm25_scores) if max(bm25_scores) > 0 else 1
MaxBm25(scores) == IF SeqMax(scores) > 0 THEN SeqMax(scores) ELSE 1

\* bm25_score_map.get(doc_id, 0), as the rational raw / max_bm25
Bm25Norm(index, doc_id) ==
    LET scores == [i \in 1..Len(index.documents) |-> Bm25Score(index.documents[i])]
        hits == {i \in 1..Len(index.ids) : index.ids[i] = doc_id}
        last == CHOOSE i \in hits : \A j \in hits : j <= i
    IN IF hits = {} THEN <<0, 1>> ELSE <<scores[last], MaxBm25(scores)>>

\* The distance taken for a similarity, without the inversion
Similarity_raw(distance) == <<1 + distance, 1>>

\* similarity = 1 / (1 + r['distance'])
Similarity(distance) == <<1, 1 + distance>>

\* The two weights applied to the wrong sides
HybridScore_swapped(vw, bw, v, b) == <<bw * v[1] * b[2] + vw * b[1] * v[2], 10 * v[2] * b[2]>>

\* hybrid_score = vector_weight * v_score + bm25_weight * b_score (weights in tenths)
HybridScore(vw, bw, v, b) == <<vw * v[1] * b[2] + bw * b[1] * v[2], 10 * v[2] * b[2]>>

Scored(r, index, vw, bw) ==
    LET v == Similarity(r.distance[1])
        b == Bm25Norm(index, r.id)
    IN [r EXCEPT !.hybrid_score = HybridScore(vw, bw, v, b),
                 !.vector_score = v, !.bm25_score = b]

\* hybrid_results.sort(key=lambda x: x['hybrid_score'], reverse=True)
SortByHybrid(rs) ==
    StableSortDesc(rs, [i \in 1..Len(rs) |-> [j \in 1..Len(rs) |->
                           RatGT(rs[i].hybrid_score, rs[j].hybrid_score)]])

\* hybrid_results after the sort, before the slice: one entry per vector result
HybridRanking(vector_results, index, vw, bw) ==
    SortByHybrid([i \in 1..Len(vector_results) |-> Scored(vector_results[i], index, vw, bw)])

\* The degraded paths handing back the whole over-fetched vector list
hybrid_search_unsliced(avail, status, build_ok, coll, cache, n_results, vw, bw) ==
    LET vector_results == search_similar_emails(status, coll, n_results * 2)
        built == build_bm25_index(avail, cache, status, build_ok, coll)
    IN IF ~avail
       THEN [results |-> vector_results, cache |-> cache, raised |-> FALSE]
       ELSE IF built.data = Absent
            THEN [results |-> vector_results, cache |-> built.cache, raised |-> FALSE]
       ELSE [results |-> Take(HybridRanking(vector_results, built.data[1], vw, bw), n_results),
             cache |-> built.cache, raised |-> FALSE]

\* Returns the candidate list, the index cache afterwards, and whether the call
\* raised instead of returning (max() of an empty bm25_scores is a ValueError)
hybrid_search(avail, status, build_ok, coll, cache, n_results, vw, bw) ==
    LET vector_results == search_similar_emails(status, coll, n_results * 2)
        built == build_bm25_index(avail, cache, status, build_ok, coll)
    IN IF ~avail
       THEN [results |-> Take(vector_results, n_results), cache |-> cache, raised |-> FALSE]
       ELSE IF built.data = Absent
            THEN [results |-> Take(vector_results, n_results), cache |-> built.cache,
                  raised |-> FALSE]
       ELSE IF built.data[1].documents = <<>>
            THEN [results |-> <<>>, cache |-> built.cache, raised |-> TRUE]
       ELSE [results |-> Take(HybridRanking(vector_results, built.data[1], vw, bw), n_results),
             cache |-> built.cache, raised |-> FALSE]

----------------------------------------------------------------------------
(* _rerank_with_cross_encoder.  ce_status is what the pairwise scorer does  *)
(* when it is needed: "ok", "load_failed" (the lazy CrossEncoder load       *)
(* raises) or "predict_raised" (predict raises).                            *)

ScorerStatuses == {"ok", "load_failed", "predict_raised"}

\* pairs = [(query, r['text']) for r in results if r.get('text')]
Pairs(rs) ==
    LET withText == Filter(rs, [r \in {rs[i] : i \in 1..Len(rs)} |-> HasText(r)])
    IN [i \in 1..Len(withText) |-> withText[i].text]

\* for i, result in enumerate(results): if i < len(ce_scores): result[...] = ce_scores[i]
WithCrossScores(rs, ce_scores) ==
    [i \in 1..Len(rs) |->
        IF i <= Len(ce_scores)
        THEN [rs[i] EXCEPT !.cross_encoder_score = Some(ce_scores[i])]
        ELSE rs[i]]

\* key=lambda x: x.get('cross_encoder_score', -float('inf'))
CrossGT(a, b) ==
    /\ a.cross_encoder_score # Absent
    /\ \/ b.cross_encoder_score = Absent
       \/ a.cross_encoder_score[1] > b.cross_encoder_score[1]

SortByCross(rs) ==
    StableSortDesc(rs, [i \in 1..Len(rs) |-> [j \in 1..Len(rs) |-> CrossGT(rs[i], rs[j])]])

\* A failure of the scorer answered with an empty list
rerank_with_cross_encoder_dropping(rs, top_k, ce_status) ==
    IF rs = <<>> THEN [results |-> <<>>, asked |-> 0, status |-> "unused"]
    ELSE IF Pairs(rs) = <<>>
         THEN [results |-> Take(rs, top_k), asked |-> 0, status |-> "unused"]
    ELSE IF ce_status = "load_failed"
         THEN [results |-> <<>>, asked |-> 0, status |-> "load_failed"]
    ELSE IF ce_status = "predict_raised"
         THEN [results |-> <<>>, asked |-> Len(Pairs(rs)), status |-> "predict_raised"]
    ELSE LET ce_scores == [i \in 1..Len(Pairs(rs)) |-> CrossScore(Pairs(rs)[i])]
         IN [results |-> Take(SortByCross(WithCrossScores(rs, ce_scores)), top_k),
             asked |-> Len(Pairs(rs)), status |-> "ok"]

\* Returns the list handed back, and how the scorer was used: how many pairs it
\* was asked to score and how that ended ("unused" when it was never needed)
rerank_with_cross_encoder(rs, top_k, ce_status) ==
    IF rs = <<>> THEN [results |-> <<>>, asked |-> 0, status |-> "unused"]
    ELSE IF Pairs(rs) = <<>>
         THEN [results |-> Take(rs, top_k), asked |-> 0, status |-> "unused"]
    ELSE IF ce_status = "load_failed"
         THEN [results |-> Take(rs, top_k), asked |-> 0, status |-> "load_failed"]
    ELSE IF ce_status = "predict_raised"
         THEN [results |-> Take(rs, top_k), asked |-> Len(Pairs(rs)),
               status |-> "predict_raised"]
    ELSE LET ce_scores == [i \in 1..Len(Pairs(rs)) |-> CrossScore(Pairs(rs)[i])]
         IN [results |-> Take(SortByCross(WithCrossScores(rs, ce_scores)), top_k),
             asked |-> Len(Pairs(rs)), status |-> "ok"]

----------------------------------------------------------------------------
(* _cosine_similarity and _apply_mmr.  A cosine is the exact integer        *)
(* CosScale * cos; an MMR score is 10 * CosScale * mmr (lambda in tenths).  *)

CosScale == 5 * 5

Dot(a, b) == a[1] * b[1] + a[2] * b[2]

Abs(x) == IF x < 0 THEN -x ELSE x

\* np.linalg.norm (every embedding of the model has an integer norm)
Norm(a) == CHOOSE n \in 0..(Abs(a[1]) + Abs(a[2])) : n * n = Dot(a, a)

cosine_similarity(a, b) ==
    IF Norm(a) = 0 \/ Norm(b) = 0 THEN 0
    ELSE (Dot(a, b) * CosScale) \div (Norm(a) * Norm(b))

\* doc_embeddings: <<>> for a candidate without text
DocEmbeddings(rs) ==
    [i \in 1..Len(rs) |-> IF HasText(rs[i]) THEN Some(embed_text(rs[i].text)) ELSE Absent]

\* relevance = self._cosine_similarity(query_emb, doc_emb), per candidate with an
\* embedding (0 stands in the table for a candidate without one, never read)
Relevances(query_emb, embs) ==
    [i \in 1..Len(embs) |->
        IF embs[i] = Absent THEN 0 ELSE cosine_similarity(query_emb, embs[i][1])]

\* self._cosine_similarity(doc_emb, doc_embeddings[sel_idx]), per pair
Similarities(embs) ==
    [i \in 1..Len(embs) |-> [j \in 1..Len(embs) |->
        IF embs[i] = Absent \/ embs[j] = Absent THEN 0
        ELSE cosine_similarity(embs[i][1], embs[j][1])]]

\* max_sim_to_selected: starts at 0, raised by every selected document
MaxSimToSelected(sim, i, sel) ==
    LET sims == {sim[i][sel[k]] : k \in 1..Len(sel)} \cup {0}
    IN CHOOSE m \in sims : \A x \in sims : x <= m

\* Relevance and redundancy weights exchanged
MmrScore_swapped(rel, sim, i, sel, lambda10) ==
    (10 - lambda10) * rel[i] - lambda10 * MaxSimToSelected(sim, i, sel)

\* mmr_score = lambda_param * relevance - (1 - lambda_param) * max_sim_to_selected
MmrScore(rel, sim, i, sel, lambda10) ==
    lambda10 * rel[i] - (10 - lambda10) * MaxSimToSelected(sim, i, sel)

\* An inner loop that does not skip the candidates already selected
BestIdx_reselect(embs, rel, sim, sel, lambda10) ==
    LET open == {i \in 1..Len(embs) : embs[i] # Absent}
        score == [i \in open |-> MmrScore(rel, sim, i, sel, lambda10)]
    IN IF open = {} THEN 0
       ELSE CHOOSE i \in open :
               \A j \in open : score[j] < score[i] \/ (score[j] = score[i] /\ i <= j)

\* One pass of the inner loop: the first index with the strictly greatest
\* score among the unselected candidates with an embedding, or 0 (best_idx = -1)
BestIdx(embs, rel, sim, sel, lambda10) ==
    LET open == {i \in 1..Len(embs) :
                    embs[i] # Absent /\ \A k \in 1..Len(sel) : sel[k] # i}
        score == [i \in open |-> MmrScore(rel, sim, i, sel, lambda10)]
    IN IF open = {} THEN 0
       ELSE CHOOSE i \in open :
               \A j \in open : score[j] < score[i] \/ (score[j] = score[i] /\ i <= j)

\* for _ in range(min(top_k, len(results))): the indices selected, in order
RECURSIVE MmrLoop(_, _, _, _, _, _)
MmrLoop(embs, rel, sim, sel, lambda10, rounds) ==
    IF rounds = 0 THEN sel
    ELSE LET best == BestIdx(embs, rel, sim, sel, lambda10)
         IN IF best = 0 THEN sel
            ELSE MmrLoop(embs, rel, sim, Append(sel, best), lambda10, rounds - 1)

apply_mmr(query_emb, rs, lambda10, top_k) ==
    IF rs = <<>> \/ Len(rs) <= top_k THEN Take(rs, top_k)
    ELSE LET embs == DocEmbeddings(rs)
             rel == Relevances(query_emb, embs)
             sim == Similarities(embs)
             sel == MmrLoop(embs, rel, sim, <<>>, lambda10, Min(top_k, Len(rs)))
         IN [k \in 1..Len(sel) |->
                [rs[sel[k]] EXCEPT !.mmr_score =
                    Some(MmrScore(rel, sim, sel[k], SubSeq(sel, 1, k - 1), lambda10))]]

----------------------------------------------------------------------------
(* AdvancedRAGConfig.  Weights and lambda are in tenths.  A parameter of a  *)
(* disabled stage is left at its dataclass default.                         *)

DefaultThreshold == 12

DefaultVectorWeight == 7

DefaultBm25Weight == 3

DefaultRerankTopK == 10

DefaultLambda == 7

DefaultFinalTopK == 3

Thresholds == {10}

Lambdas == {DefaultLambda}

RerankTopKs == {MaxDocs - 1}

Dists == {2, 13}

DEFAULT_RAG_CONFIG ==
    [use_threshold |-> TRUE, distance_threshold |-> DefaultThreshold,
     use_hybrid |-> TRUE, vector_weight |-> DefaultVectorWeight,
     bm25_weight |-> DefaultBm25Weight,
     use_reranking |-> TRUE, rerank_top_k |-> DefaultRerankTopK,
     use_mmr |-> TRUE, mmr_lambda |-> DefaultLambda,
     final_top_k |-> DefaultFinalTopK]

Configs ==
    {c \in [use_threshold : BOOLEAN, distance_threshold : Thresholds \cup {DefaultThreshold},
            use_hybrid : BOOLEAN, vector_weight : {DefaultVectorWeight},
            bm25_weight : {DefaultBm25Weight},
            use_reranking : BOOLEAN, rerank_top_k : RerankTopKs \cup {DefaultRerankTopK},
            use_mmr : BOOLEAN, mmr_lambda : Lambdas,
            final_top_k : 1..MaxK] :
        /\ c.use_threshold <=> c.distance_threshold \in Thresholds
        /\ c.use_reranking <=> c.rerank_top_k \in RerankTopKs
        /\ ~c.use_mmr => c.mmr_lambda = DefaultLambda}

----------------------------------------------------------------------------
(* The collection: its documents in the vector index's rank order for the   *)
(* query (distance ascending), ids unique.                                  *)

NonDecreasing(d) == \A i \in 1..(Len(d) - 1) : d[i] <= d[i + 1]

\* The collection whose i-th ranked document has id ids[i], text t[i], distance d[i]
Collection(ids, t, d) == [i \in 1..Len(ids) |-> Doc(ids[i], t[i], d[i])]

\* Ids in rank order, or in reverse rank order
Ascending(n) == [i \in 1..n |-> i]

Descending(n) == [i \in 1..n |-> n + 1 - i]

----------------------------------------------------------------------------
(* State machine: one advanced_search call at a time, step by step.         *)

NoScorer == [status |-> "unused", asked |-> 0]

NoOutcome == [kind |-> "none", value |-> <<>>]

Returned(list) == [kind |-> "list", value |-> list]

\* The call ended with an exception instead of a return value
Raised == [kind |-> "error", value |-> <<>>]

\* The request threads of the server
Threads == {1, 2}

\* A thread that runs no call
IdleThread ==
    [pc |-> "idle", call |-> "none", cfg |-> DEFAULT_RAG_CONFIG, cfg_read |-> DEFAULT_RAG_CONFIG,
     results |-> <<>>, bm25_data |-> Absent, fresh |-> Absent, bm25_scores |-> <<>>,
     outcome |-> NoOutcome]

NoThreads == [t \in Threads |-> IdleThread]

\* No graph run: the state dict process_new_emails starts from
InitialWorkflowState ==
    [email_ids |-> {}, classifications |-> {}, important_emails |-> {}, reply_drafts |-> {},
     approved_replies |-> <<>>, current_step |-> "init", errors |-> <<>>]

\* No graph run and no node call: fetch is how the fetch endpoint answered,
\* analysis what the analysis endpoint answers for each email looked up,
\* analyzed and generated the emails the analysis and the generate-reply
\* endpoints were requested for
NoWorkflow ==
    [node |-> "none", graph |-> FALSE, state |-> InitialWorkflowState,
     fetch |-> "none", analysis |-> <<>>, analyzed |-> {}, generated |-> {}]

Init ==
    /\ BM25_AVAILABLE \in BOOLEAN
    /\ \E n \in 0..MaxDocs : \E t \in [1..n -> CorpusTexts], d \in [1..n -> Dists] :
          /\ NonDecreasing(d)
          /\ corpus = Collection(Ascending(n), t, d)
    /\ bm25_indices = Absent
    /\ pc = "idle"
    /\ call = "none"
    /\ cfg = DEFAULT_RAG_CONFIG
    /\ results = <<>>
    /\ stages = <<>>
    /\ args = <<>>
    /\ vector_status = "none"
    /\ stage_in = <<>>
    /\ stage_out = <<>>
    /\ scorer = NoScorer
    /\ outcome = NoOutcome
    /\ self_config = DEFAULT_RAG_CONFIG
    /\ threads = NoThreads
    /\ builds = {}
    /\ wf = NoWorkflow
    /\ sent = <<>>
    /\ build_log = <<>>

\* The over-fetch of the plain search used with reranking too
InitialCount_overfetch(c) == c.final_top_k * 2

\* n_results=cfg.rerank_top_k if cfg.use_reranking else cfg.final_top_k * 2
InitialCount(c) == IF c.use_reranking THEN c.rerank_top_k ELSE c.final_top_k * 2

\* top_k=cfg.final_top_k * 2 if cfg.use_mmr else cfg.final_top_k
\* A rerank that keeps final_top_k candidates whether or not MMR follows
RerankCount_final(c) == c.final_top_k

RerankCount(c) == IF c.use_mmr THEN c.final_top_k * 2 ELSE c.final_top_k

\* if cfg.use_hybrid and BM25_AVAILABLE
RunsHybrid(c, avail) == c.use_hybrid /\ avail

\* The threshold filter applied whatever the flag says
RunsThreshold_always(c) == TRUE

\* if cfg.use_threshold
\* A pipeline that never filters by distance
RunsThreshold_never(c) == FALSE

RunsThreshold(c) == c.use_threshold

\* Reranking applied whatever the flag says
RunsRerank_always(c) == TRUE

\* if cfg.use_reranking
RunsRerank(c) == c.use_reranking

\* if cfg.use_mmr and len(results) > cfg.final_top_k
RunsMmr(c, rs) == c.use_mmr /\ Len(rs) > c.final_top_k

\* if not results: return []   (after step 1)
EmptyAfterSearch(rs) == rs = <<>>

\* The early return after the filter left out
EmptyAfterFilter_never(rs) == FALSE

\* if not results: return []   (after step 2)
EmptyAfterFilter(rs) == rs = <<>>

\* advanced_search is entered: cfg = config or self.config
Start ==
    /\ pc = "idle"
    /\ \E c \in Configs : cfg' = c
    /\ pc' = "step1"
    /\ call' = "advanced_search"
    /\ results' = <<>>
    /\ stages' = <<>>
    /\ args' = <<>>
    /\ vector_status' = "none"
    /\ stage_in' = <<>>
    /\ stage_out' = <<>>
    /\ scorer' = NoScorer
    /\ outcome' = NoOutcome
    /\ UNCHANGED <<BM25_AVAILABLE, corpus, bm25_indices>>
    /\ UNCHANGED <<concurrent_vars, workflow_vars, build_log>>

\* Step 1: hybrid or vector search, then `if not results: return []`
Step1 ==
    /\ pc = "step1"
    /\ \E status \in VectorStatuses, build_ok \in BOOLEAN :
          LET h == hybrid_search(BM25_AVAILABLE, status, build_ok, corpus, bm25_indices,
                                 InitialCount(cfg), cfg.vector_weight, cfg.bm25_weight)
              found == IF RunsHybrid(cfg, BM25_AVAILABLE) THEN h.results
                       ELSE search_similar_emails(status, corpus, InitialCount(cfg))
          IN /\ vector_status' = status
             /\ results' = found
             /\ stage_out' = found
             /\ bm25_indices' = IF RunsHybrid(cfg, BM25_AVAILABLE) THEN h.cache
                                ELSE bm25_indices
             /\ stages' = IF RunsHybrid(cfg, BM25_AVAILABLE) THEN <<"retrieve", "hybrid">>
                          ELSE <<"retrieve">>
             /\ IF RunsHybrid(cfg, BM25_AVAILABLE) /\ h.raised
                THEN pc' = "done" /\ outcome' = Raised
                ELSE IF EmptyAfterSearch(found)
                THEN pc' = "done" /\ outcome' = Returned(<<>>)
                ELSE pc' = "step2" /\ outcome' = outcome
    /\ UNCHANGED <<BM25_AVAILABLE, corpus, call, cfg, args, stage_in, scorer>>
    /\ UNCHANGED <<concurrent_vars, workflow_vars, build_log>>

\* Step 2: threshold filter, then `if not results: return []`
Step2 ==
    /\ pc = "step2"
    /\ LET kept == IF RunsThreshold(cfg) THEN apply_threshold(results, cfg.distance_threshold)
                   ELSE results
       IN /\ results' = kept
          /\ IF RunsThreshold(cfg)
             THEN /\ stages' = Append(stages, "threshold")
                  /\ stage_in' = results
                  /\ stage_out' = kept
             ELSE UNCHANGED <<stages, stage_in, stage_out>>
          /\ IF EmptyAfterFilter(kept)
             THEN pc' = "done" /\ outcome' = Returned(<<>>)
             ELSE pc' = "step3" /\ outcome' = outcome
    /\ UNCHANGED <<BM25_AVAILABLE, corpus, bm25_indices, call, cfg, args, vector_status, scorer>>
    /\ UNCHANGED <<concurrent_vars, workflow_vars, build_log>>

\* Step 3: cross-encoder reranking
Step3 ==
    /\ pc = "step3"
    /\ IF RunsRerank(cfg)
       THEN \E ce_status \in ScorerStatuses :
               LET r == rerank_with_cross_encoder(results, RerankCount(cfg), ce_status)
               IN /\ results' = r.results
                  /\ stages' = Append(stages, "rerank")
                  /\ stage_in' = results
                  /\ stage_out' = r.results
                  /\ scorer' = [status |-> r.status, asked |-> r.asked]
       ELSE UNCHANGED <<results, stages, stage_in, stage_out, scorer>>
    /\ pc' = "step4"
    /\ UNCHANGED <<BM25_AVAILABLE, corpus, bm25_indices, call, cfg, args, vector_status, outcome>>
    /\ UNCHANGED <<concurrent_vars, workflow_vars, build_log>>

\* Step 4: MMR
Step4 ==
    /\ pc = "step4"
    /\ IF RunsMmr(cfg, results)
       THEN LET picked == apply_mmr(QueryEmbedding, results, cfg.mmr_lambda, cfg.final_top_k)
            IN /\ results' = picked
               /\ stages' = Append(stages, "mmr")
               /\ stage_in' = results
               /\ stage_out' = picked
       ELSE UNCHANGED <<results, stages, stage_in, stage_out>>
    /\ pc' = "step5"
    /\ UNCHANGED <<BM25_AVAILABLE, corpus, bm25_indices, call, cfg, args, vector_status,
                   scorer, outcome>>
    /\ UNCHANGED <<concurrent_vars, workflow_vars, build_log>>

\* return results[:cfg.final_top_k]
Step5 ==
    /\ pc = "step5"
    /\ outcome' = Returned(Take(results, cfg.final_top_k))
    /\ stages' = Append(stages, "truncate")
    /\ pc' = "done"
    /\ UNCHANGED <<BM25_AVAILABLE, corpus, bm25_indices, call, cfg, results, args,
                   vector_status, stage_in, stage_out, scorer>>
    /\ UNCHANGED <<concurrent_vars, workflow_vars, build_log>>

\* The caller has taken the call's outcome; the call's locals are gone
Finish ==
    /\ pc = "done"
    /\ pc' = "idle"
    /\ call' = "none"
    /\ cfg' = DEFAULT_RAG_CONFIG
    /\ results' = <<>>
    /\ stages' = <<>>
    /\ args' = <<>>
    /\ vector_status' = "none"
    /\ stage_in' = <<>>
    /\ stage_out' = <<>>
    /\ scorer' = NoScorer
    /\ outcome' = NoOutcome
    /\ UNCHANGED <<BM25_AVAILABLE, corpus, bm25_indices>>
    /\ UNCHANGED <<concurrent_vars, workflow_vars, build_log>>

Next == Start \/ Step1 \/ Step2 \/ Step3 \/ Step4 \/ Step5 \/ Finish

Spec == Init /\ [][Next]_vars

----------------------------------------------------------------------------
(* Direct calls of the stage methods on the service object, each a whole    *)
(* call in one step.                                                        *)

\* The service with an empty collection and no call running
InitUnit ==
    /\ Init
    /\ BM25_AVAILABLE
    /\ corpus = <<>>

(* _apply_threshold(results, threshold) *)

FilterDistances == {Absent} \cup {Some(d) : d \in {1, 5, 9, 13, 20}}

FilterThresholds == {0, 9, 10, 20}

\* The candidate list whose i-th entry has id i, text t[i] and distance entry d[i]
Pool(t, d) == [i \in 1..Len(t) |-> Candidate(i, t[i], d[i])]

CallThreshold ==
    /\ pc = "idle"
    /\ \E n \in 0..MaxFilterPool : \E d \in [1..n -> FilterDistances],
                                     threshold \in FilterThresholds :
          /\ args' = [threshold |-> threshold]
          /\ stage_in' = Pool([i \in 1..n |-> 1], d)
          /\ stage_out' = apply_threshold(stage_in', threshold)
          /\ results' = stage_out'
          /\ outcome' = Returned(stage_out')
    /\ call' = "_apply_threshold"
    /\ stages' = <<"threshold">>
    /\ pc' = "done"
    /\ UNCHANGED <<BM25_AVAILABLE, corpus, bm25_indices, cfg, vector_status, scorer>>
    /\ UNCHANGED <<concurrent_vars, workflow_vars, build_log>>

SpecThreshold == InitUnit /\ [][CallThreshold \/ Finish]_vars

(* _hybrid_search(query, collection_name, n_results, vector_weight, bm25_weight) *)

HybridTexts == {1, 2, 3}

HybridDists == {2, 10}

HybridWeights == {<<DefaultVectorWeight, DefaultBm25Weight>>, <<10, 0>>, <<0, 10>>}

InitHybrid ==
    /\ BM25_AVAILABLE \in BOOLEAN
    /\ \E n \in 0..MaxDocs : \E ids \in {Ascending(n), Descending(n)},
                               t \in [1..n -> HybridTexts], d \in [1..n -> HybridDists] :
          /\ NonDecreasing(d)
          /\ corpus = Collection(ids, t, d)
    /\ bm25_indices = Absent
    /\ pc = "idle"
    /\ call = "none"
    /\ cfg = DEFAULT_RAG_CONFIG
    /\ results = <<>>
    /\ stages = <<>>
    /\ args = <<>>
    /\ vector_status = "none"
    /\ stage_in = <<>>
    /\ stage_out = <<>>
    /\ scorer = NoScorer
    /\ outcome = NoOutcome
    /\ self_config = DEFAULT_RAG_CONFIG
    /\ threads = NoThreads
    /\ builds = {}
    /\ wf = NoWorkflow
    /\ sent = <<>>
    /\ build_log = <<>>

\* stage_in is what the vector lookup inside the call returned
CallHybrid ==
    /\ pc = "idle"
    /\ \E n_results \in {1, MaxDocs}, w \in HybridWeights,
          status \in {"ok", "raised"}, build_ok \in BOOLEAN :
          LET h == hybrid_search(BM25_AVAILABLE, status, build_ok, corpus, bm25_indices,
                                 n_results, w[1], w[2])
          IN /\ args' = [n_results |-> n_results, vector_weight |-> w[1],
                         bm25_weight |-> w[2]]
             /\ vector_status' = status
             /\ stage_in' = search_similar_emails(status, corpus, n_results * 2)
             /\ stage_out' = h.results
             /\ results' = h.results
             /\ bm25_indices' = h.cache
             /\ outcome' = IF h.raised THEN Raised ELSE Returned(h.results)
    /\ call' = "_hybrid_search"
    /\ stages' = <<"retrieve", "hybrid">>
    /\ pc' = "done"
    /\ UNCHANGED <<BM25_AVAILABLE, corpus, cfg, scorer>>
    /\ UNCHANGED <<concurrent_vars, workflow_vars, build_log>>

SpecHybrid == InitHybrid /\ [][CallHybrid \/ Finish]_vars

\* advanced_search and direct _hybrid_search calls on the same service
SpecDegrade == Init /\ [][Next \/ CallHybrid]_vars

(* add_user_feedback: collection.upsert of one new document; the lexical     *)
(* index cache is not touched.  The document takes its place in the vector  *)
(* index's ranking for the query by its distance.                           *)

InsertRanked(coll, doc) ==
    LET before == {i \in 1..Len(coll) : coll[i].distance <= doc.distance}
        k == Cardinality(before)
    IN SubSeq(coll, 1, k) \o <<doc>> \o SubSeq(coll, k + 1, Len(coll))

AddUserFeedback ==
    /\ pc = "idle"
    /\ Len(corpus) < MaxDocs
    /\ \E t \in HybridTexts, d \in HybridDists :
          corpus' = InsertRanked(corpus, Doc(Len(corpus) + 1, t, d))
    /\ UNCHANGED <<BM25_AVAILABLE, bm25_indices, pc, call, cfg, results, stages, args,
                   vector_status, stage_in, stage_out, scorer, outcome>>
    /\ UNCHANGED <<concurrent_vars, workflow_vars, build_log>>

SpecFeedback == InitHybrid /\ [][CallHybrid \/ Finish \/ AddUserFeedback]_vars

(* _hybrid_search on several request threads of the one service instance,   *)
(* at the grain of its reads and writes of self._bm25_indices.  Here an     *)
(* index tuple keeps its three components apart: bm25 stands for the        *)
(* documents the BM25Okapi model was fitted on.                             *)

\* (bm25, documents, ids) built from all_data = collection.get()
IndexTuple(coll) ==
    [bm25 |-> [i \in 1..Len(coll) |-> coll[i].text],
     documents |-> [i \in 1..Len(coll) |-> coll[i].text],
     ids |-> [i \in 1..Len(coll) |-> coll[i].id]]

\* The id list stored apart from the rest of the tuple, one build late
Publish_torn(cache, tuple) ==
    IF cache = Absent THEN Some(tuple) ELSE Some([tuple EXCEPT !.ids = cache[1].ids])

\* self._bm25_indices[collection_name] = (bm25, documents, ids)
Publish(cache, tuple) == Some(tuple)

\* vector_results = self.search_similar_emails(...); if not BM25_AVAILABLE: return
HybridEnter(t) ==
    /\ threads[t].pc = "idle"
    /\ LET vector_results == search_similar_emails("ok", corpus, MaxDocs * 2)
       IN threads' = [threads EXCEPT ![t] =
             IF BM25_AVAILABLE
             THEN [@ EXCEPT !.pc = "cache_check", !.call = "_hybrid_search",
                            !.results = vector_results]
             ELSE [@ EXCEPT !.pc = "done", !.call = "_hybrid_search",
                            !.results = Take(vector_results, MaxDocs),
                            !.outcome = Returned(Take(vector_results, MaxDocs))]]
    /\ UNCHANGED <<BM25_AVAILABLE, corpus, bm25_indices, pc, call, cfg, results, stages, args,
                   vector_status, stage_in, stage_out, scorer, outcome, self_config, builds,
                   workflow_vars, build_log>>

\* if collection_name in self._bm25_indices: return self._bm25_indices[collection_name]
BuildCheck(t) ==
    /\ threads[t].pc = "cache_check"
    /\ threads' = [threads EXCEPT ![t] =
          IF bm25_indices # Absent
          THEN [@ EXCEPT !.pc = "score", !.bm25_data = bm25_indices]
          ELSE [@ EXCEPT !.pc = "get"]]
    /\ UNCHANGED <<BM25_AVAILABLE, corpus, bm25_indices, pc, call, cfg, results, stages, args,
                   vector_status, stage_in, stage_out, scorer, outcome, self_config, builds,
                   workflow_vars, build_log>>

\* all_data = collection.get() ... bm25 = BM25Okapi(tokenized_docs); None when the
\* collection is empty or the build raises, and then _hybrid_search returns
BuildGet(t) ==
    /\ threads[t].pc = "get"
    /\ \E build_ok \in BOOLEAN :
          IF build_ok /\ corpus # <<>>
          THEN /\ threads' = [threads EXCEPT ![t] =
                     [@ EXCEPT !.pc = "publish", !.fresh = Some(IndexTuple(corpus))]]
               /\ builds' = builds \cup {IndexTuple(corpus)}
          ELSE /\ threads' = [threads EXCEPT ![t] =
                     [@ EXCEPT !.pc = "done", !.results = Take(@, MaxDocs),
                               !.outcome = Returned(Take(threads[t].results, MaxDocs))]]
               /\ builds' = builds
    /\ UNCHANGED <<BM25_AVAILABLE, corpus, bm25_indices, pc, call, cfg, results, stages, args,
                   vector_status, stage_in, stage_out, scorer, outcome, self_config,
                   workflow_vars, build_log>>

\* self._bm25_indices[collection_name] = (bm25, documents, ids)
BuildPublish(t) ==
    /\ threads[t].pc = "publish"
    /\ bm25_indices' = Publish(bm25_indices, threads[t].fresh[1])
    /\ threads' = [threads EXCEPT ![t] = [@ EXCEPT !.pc = "reread"]]
    /\ UNCHANGED <<BM25_AVAILABLE, corpus, pc, call, cfg, results, stages, args,
                   vector_status, stage_in, stage_out, scorer, outcome, self_config, builds,
                   workflow_vars, build_log>>

\* return self._bm25_indices[collection_name]
BuildReturn(t) ==
    /\ threads[t].pc = "reread"
    /\ threads' = [threads EXCEPT ![t] = [@ EXCEPT !.pc = "score", !.bm25_data = bm25_indices]]
    /\ UNCHANGED <<BM25_AVAILABLE, corpus, bm25_indices, pc, call, cfg, results, stages, args,
                   vector_status, stage_in, stage_out, scorer, outcome, self_config, builds,
                   workflow_vars, build_log>>

\* bm25, documents, ids = bm25_data; bm25_scores = bm25.get_scores(tokenized_query)
HybridGetScores(t) ==
    /\ threads[t].pc = "score"
    /\ LET bm25 == threads[t].bm25_data[1].bm25
       IN threads' = [threads EXCEPT ![t] =
             [@ EXCEPT !.pc = "combine",
                       !.bm25_scores = [i \in 1..Len(bm25) |-> Bm25Score(bm25[i])]]]
    /\ UNCHANGED <<BM25_AVAILABLE, corpus, bm25_indices, pc, call, cfg, results, stages, args,
                   vector_status, stage_in, stage_out, scorer, outcome, self_config, builds,
                   workflow_vars, build_log>>

\* bm25_score_map = {ids[i]: ...}, the hybrid scores, the sort and the slice
HybridCombine(t) ==
    /\ threads[t].pc = "combine"
    /\ LET index == [documents |-> threads[t].bm25_data[1].bm25,
                     ids |-> threads[t].bm25_data[1].ids]
           ranked == Take(HybridRanking(threads[t].results, index, DefaultVectorWeight,
                                        DefaultBm25Weight), MaxDocs)
       IN threads' = [threads EXCEPT ![t] =
             [@ EXCEPT !.pc = "done", !.results = ranked, !.outcome = Returned(ranked)]]
    /\ UNCHANGED <<BM25_AVAILABLE, corpus, bm25_indices, pc, call, cfg, results, stages, args,
                   vector_status, stage_in, stage_out, scorer, outcome, self_config, builds,
                   workflow_vars, build_log>>

\* The thread's call is over and its locals are gone
ThreadFinish(t) ==
    /\ threads[t].pc = "done"
    /\ threads' = [threads EXCEPT ![t] = IdleThread]
    /\ UNCHANGED <<BM25_AVAILABLE, corpus, bm25_indices, pc, call, cfg, results, stages, args,
                   vector_status, stage_in, stage_out, scorer, outcome, self_config, builds,
                   workflow_vars, build_log>>

\* add_user_feedback running on another thread: one more document, its text
\* sharing terms with the query
UpsertDocument ==
    /\ Len(corpus) < MaxDocs
    /\ corpus' = InsertRanked(corpus, Doc(Len(corpus) + 1, 2, 2))
    /\ UNCHANGED <<BM25_AVAILABLE, bm25_indices, pc, call, cfg, results, stages, args,
                   vector_status, stage_in, stage_out, scorer, outcome,
                   concurrent_vars, workflow_vars, build_log>>

InitPublish ==
    /\ InitHybrid
    /\ corpus = <<>>

NextPublish ==
    \/ \E t \in Threads :
          \/ HybridEnter(t)
          \/ BuildCheck(t)
          \/ BuildGet(t)
          \/ BuildPublish(t)
          \/ BuildReturn(t)
          \/ HybridGetScores(t)
          \/ HybridCombine(t)
          \/ ThreadFinish(t)
    \/ UpsertDocument

SpecPublish == InitPublish /\ [][NextPublish]_vars

(* advanced_search on several request threads, one stage per step, with     *)
(* set_config calls in between.  The vector index, the index build and the  *)
(* pairwise scorer all work, so a call alone is a function of its config.   *)

\* The configurations in use: hybrid and MMR on or off together, threshold and
\* reranking on or off together
ConcurrentConfigs ==
    {c \in Configs : /\ c.final_top_k = 1
                     /\ c.use_hybrid = c.use_mmr
                     /\ c.use_threshold = c.use_reranking}

\* Every stage reading self.config anew
StageConfig_shared(local, shared) == shared

\* The configuration a stage of a running call reads: the call's local cfg
StageConfig(local, shared) == local

\* set_config: self.config = config
SetConfig ==
    /\ \E c \in ConcurrentConfigs : c # self_config /\ self_config' = c
    /\ UNCHANGED <<BM25_AVAILABLE, corpus, bm25_indices, pc, call, cfg, results, stages, args,
                   vector_status, stage_in, stage_out, scorer, outcome, threads, builds,
                   workflow_vars, build_log>>

\* cfg = config or self.config
SearchEnter(t) ==
    /\ threads[t].pc = "idle"
    /\ \E config \in {Absent} \cup {Some(c) : c \in ConcurrentConfigs} :
          LET read == IF config = Absent THEN self_config ELSE config[1]
          IN threads' = [threads EXCEPT ![t] =
                [@ EXCEPT !.pc = "step1", !.call = "advanced_search",
                          !.cfg = read, !.cfg_read = read]]
    /\ UNCHANGED <<BM25_AVAILABLE, corpus, bm25_indices, pc, call, cfg, results, stages, args,
                   vector_status, stage_in, stage_out, scorer, outcome, self_config, builds,
                   workflow_vars, build_log>>

SearchStep1(t) ==
    /\ threads[t].pc = "step1"
    /\ LET c == StageConfig(threads[t].cfg, self_config)
           h == hybrid_search(BM25_AVAILABLE, "ok", TRUE, corpus, bm25_indices,
                              InitialCount(c), c.vector_weight, c.bm25_weight)
           found == IF RunsHybrid(c, BM25_AVAILABLE) THEN h.results
                    ELSE search_similar_emails("ok", corpus, InitialCount(c))
       IN /\ bm25_indices' = IF RunsHybrid(c, BM25_AVAILABLE) THEN h.cache ELSE bm25_indices
          /\ threads' = [threads EXCEPT ![t] =
                IF EmptyAfterSearch(found)
                THEN [@ EXCEPT !.pc = "done", !.results = found, !.outcome = Returned(<<>>)]
                ELSE [@ EXCEPT !.pc = "step2", !.results = found]]
    /\ UNCHANGED <<BM25_AVAILABLE, corpus, pc, call, cfg, results, stages, args,
                   vector_status, stage_in, stage_out, scorer, outcome, self_config, builds,
                   workflow_vars, build_log>>

SearchStep2(t) ==
    /\ threads[t].pc = "step2"
    /\ LET c == StageConfig(threads[t].cfg, self_config)
           kept == IF RunsThreshold(c)
                   THEN apply_threshold(threads[t].results, c.distance_threshold)
                   ELSE threads[t].results
       IN threads' = [threads EXCEPT ![t] =
             IF EmptyAfterFilter(kept)
             THEN [@ EXCEPT !.pc = "done", !.results = kept, !.outcome = Returned(<<>>)]
             ELSE [@ EXCEPT !.pc = "step3", !.results = kept]]
    /\ UNCHANGED <<BM25_AVAILABLE, corpus, bm25_indices, pc, call, cfg, results, stages, args,
                   vector_status, stage_in, stage_out, scorer, outcome, self_config, builds,
                   workflow_vars, build_log>>

SearchStep3(t) ==
    /\ threads[t].pc = "step3"
    /\ LET c == StageConfig(threads[t].cfg, self_config)
           reranked == IF RunsRerank(c)
                       THEN rerank_with_cross_encoder(threads[t].results, RerankCount(c),
                                                      "ok").results
                       ELSE threads[t].results
       IN threads' = [threads EXCEPT ![t] = [@ EXCEPT !.pc = "step4", !.results = reranked]]
    /\ UNCHANGED <<BM25_AVAILABLE, corpus, bm25_indices, pc, call, cfg, results, stages, args,
                   vector_status, stage_in, stage_out, scorer, outcome, self_config, builds,
                   workflow_vars, build_log>>

SearchStep4(t) ==
    /\ threads[t].pc = "step4"
    /\ LET c == StageConfig(threads[t].cfg, self_config)
           picked == IF RunsMmr(c, threads[t].results)
                     THEN apply_mmr(QueryEmbedding, threads[t].results, c.mmr_lambda,
                                    c.final_top_k)
                     ELSE threads[t].results
       IN threads' = [threads EXCEPT ![t] = [@ EXCEPT !.pc = "step5", !.results = picked]]
    /\ UNCHANGED <<BM25_AVAILABLE, corpus, bm25_indices, pc, call, cfg, results, stages, args,
                   vector_status, stage_in, stage_out, scorer, outcome, self_config, builds,
                   workflow_vars, build_log>>

SearchStep5(t) ==
    /\ threads[t].pc = "step5"
    /\ LET c == StageConfig(threads[t].cfg, self_config)
       IN threads' = [threads EXCEPT ![t] =
             [@ EXCEPT !.pc = "done",
                       !.outcome = Returned(Take(threads[t].results, c.final_top_k))]]
    /\ UNCHANGED <<BM25_AVAILABLE, corpus, bm25_indices, pc, call, cfg, results, stages, args,
                   vector_status, stage_in, stage_out, scorer, outcome, self_config, builds,
                   workflow_vars, build_log>>

\* A full collection whose documents have text 1 and text 2 in turn
InitConcurrent ==
    /\ Init
    /\ Len(corpus) = MaxDocs
    /\ \A i \in 1..Len(corpus) : corpus[i].text = 1 + (i % 2)

NextConcurrent ==
    \/ \E t \in Threads :
          \/ SearchEnter(t)
          \/ SearchStep1(t)
          \/ SearchStep2(t)
          \/ SearchStep3(t)
          \/ SearchStep4(t)
          \/ SearchStep5(t)
          \/ ThreadFinish(t)
    \/ SetConfig

SpecConcurrent == InitConcurrent /\ [][NextConcurrent]_vars

(* The email-processing graph of agents/email_processor.py.  A node and the *)
(* edge that leaves it are one step; a node's result is merged into the     *)
(* state dict.  Emails are numbers; the reply for email i is i.             *)

Emails == 1..MaxEmails

\* Lists of up to MaxEmails replies
ReplyLists == UNION {[1..n -> Emails] : n \in 0..MaxEmails}

\* importance_score >= 7
ImportanceThreshold == 7

\* What the analysis endpoint answers when requested for an email: the
\* request fails (ok = FALSE), or a body with success and importance_score
AnalysisAnswers ==
    {[ok |-> FALSE, success |-> FALSE, importance_score |-> 0]} \cup
    {[ok |-> TRUE, success |-> FALSE, importance_score |-> 0]} \cup
    {[ok |-> TRUE, success |-> TRUE, importance_score |-> i] :
        i \in {ImportanceThreshold - 1, ImportanceThreshold}}

\* The parameters of N8nToolWrapper.analyze_email besides self
AnalyzeEmailParameters == {"email_id"}

\* The keyword arguments classify_emails_node calls it with
ClassifyKeywords == {"email_id", "email_data", "use_rag"}

\* The positional email_id of analyze_single_email and analyze_multiple_emails
SingleKeywords == {"email_id"}

\* n8n_tools.analyze_email called with these keywords for an email the
\* endpoint would answer with `answer`: an unexpected keyword raises TypeError
\* before any request is made, a failed request raises, otherwise the body
\* is returned
analyze_email(keywords, answer) ==
    IF ~(keywords \subseteq AnalyzeEmailParameters)
    THEN [raised |-> TRUE, requested |-> FALSE, result |-> answer]
    ELSE IF ~answer.ok
    THEN [raised |-> TRUE, requested |-> TRUE, result |-> answer]
    ELSE [raised |-> FALSE, requested |-> TRUE, result |-> answer]

\* An edge that goes on to reply generation whatever was classified
should_generate_replies_always(state) == "generate_replies"

\* should_generate_replies
should_generate_replies(state) ==
    IF Cardinality(state.important_emails) > 0 THEN "generate_replies" ELSE "end"

\* should_send_replies
should_send_replies(state) ==
    IF Len(state.approved_replies) > 0 THEN "send_replies" ELSE "end"

\* A send step that sends every approved reply twice
RepliesToSend_twice(state) == state.approved_replies \o state.approved_replies

\* for reply in state["approved_replies"]
RepliesToSend(state) == state.approved_replies

\* Where a run goes after a node: along the graph's edge, or back to the
\* caller when the node function was called on its own
Edge(next) == IF wf.graph THEN next ELSE "end"

\* process_new_emails: the graph is invoked with the initial state
ProcessNewEmails ==
    /\ wf.node = "none"
    /\ wf' = [NoWorkflow EXCEPT !.node = "fetch_emails", !.graph = TRUE]
    /\ sent' = <<>>
    /\ UNCHANGED <<BM25_AVAILABLE, corpus, bm25_indices, pc, call, cfg, results, stages, args,
                   vector_status, stage_in, stage_out, scorer, outcome, concurrent_vars, build_log>>

\* email_processing_graph.invoke(state) with a state that carries approved replies
InvokeWithApproved ==
    /\ wf.node = "none"
    /\ \E approved \in ReplyLists \ {<<>>} :
          wf' = [NoWorkflow EXCEPT !.node = "fetch_emails", !.graph = TRUE,
                                   !.state.approved_replies = approved]
    /\ sent' = <<>>
    /\ UNCHANGED <<BM25_AVAILABLE, corpus, bm25_indices, pc, call, cfg, results, stages, args,
                   vector_status, stage_in, stage_out, scorer, outcome, concurrent_vars, build_log>>

\* generate_replies_node(state) called on its own
CallGenerateRepliesNode ==
    /\ wf.node = "none"
    /\ \E important \in SUBSET Emails :
          wf' = [NoWorkflow EXCEPT !.node = "generate_replies",
                                   !.state.email_ids = important,
                                   !.state.important_emails = important,
                                   !.state.current_step = "classified"]
    /\ sent' = <<>>
    /\ UNCHANGED <<BM25_AVAILABLE, corpus, bm25_indices, pc, call, cfg, results, stages, args,
                   vector_status, stage_in, stage_out, scorer, outcome, concurrent_vars, build_log>>

\* send_replies_node(state) called on its own
CallSendRepliesNode ==
    /\ wf.node = "none"
    /\ \E approved \in ReplyLists :
          wf' = [NoWorkflow EXCEPT !.node = "send_replies",
                                   !.state.approved_replies = approved,
                                   !.state.current_step = "replies_generated"]
    /\ sent' = <<>>
    /\ UNCHANGED <<BM25_AVAILABLE, corpus, bm25_indices, pc, call, cfg, results, stages, args,
                   vector_status, stage_in, stage_out, scorer, outcome, concurrent_vars, build_log>>

\* analyze_single_email(email_id) and each round of analyze_multiple_emails
AnalyzeSingleEmail ==
    /\ wf.node = "none"
    /\ \E e \in Emails, answer \in AnalysisAnswers :
          LET reply == analyze_email(SingleKeywords, answer)
          IN wf' = [NoWorkflow EXCEPT !.node = "end",
                                      !.analysis = [x \in {e} |-> answer],
                                      !.analyzed = IF reply.requested THEN {e} ELSE {}]
    /\ sent' = <<>>
    /\ UNCHANGED <<BM25_AVAILABLE, corpus, bm25_indices, pc, call, cfg, results, stages, args,
                   vector_status, stage_in, stage_out, scorer, outcome, concurrent_vars, build_log>>

\* fetch_emails_node, then the edge to classify_emails
FetchEmailsNode ==
    /\ wf.node = "fetch_emails"
    /\ \/ \E ids \in SUBSET Emails :
             wf' = [wf EXCEPT !.node = "classify_emails", !.fetch = "ok",
                              !.state.email_ids = ids, !.state.current_step = "fetched",
                              !.state.errors = <<>>]
       \/ wf' = [wf EXCEPT !.node = "classify_emails", !.fetch = "raised",
                           !.state.email_ids = {}, !.state.current_step = "fetch_failed",
                           !.state.errors = <<"fetch_emails">>]
    /\ UNCHANGED sent
    /\ UNCHANGED <<BM25_AVAILABLE, corpus, bm25_indices, pc, call, cfg, results, stages, args,
                   vector_status, stage_in, stage_out, scorer, outcome, concurrent_vars, build_log>>

\* classify_emails_node, then should_generate_replies.  found are the emails
\* the database returns for email_ids; an exception of analyze_email is
\* logged and the email skipped
ClassifyEmailsNode ==
    /\ wf.node = "classify_emails"
    /\ \E db_ok \in BOOLEAN, found \in SUBSET wf.state.email_ids :
       \E answers \in [found -> AnalysisAnswers] :
          LET reply == [e \in found |-> analyze_email(ClassifyKeywords, answers[e])]
              classified == {e \in found : ~reply[e].raised /\ reply[e].result.success}
              after ==
                IF wf.state.email_ids = {}
                THEN [wf.state EXCEPT !.classifications = {}, !.important_emails = {},
                                      !.current_step = "classified_empty"]
                ELSE IF db_ok
                THEN [wf.state EXCEPT
                        !.classifications =
                            {[email_id |-> e,
                              importance_score |-> reply[e].result.importance_score] :
                                 e \in classified},
                        !.important_emails =
                            {e \in classified :
                                reply[e].result.importance_score >= ImportanceThreshold},
                        !.current_step = "classified"]
                ELSE [wf.state EXCEPT !.classifications = {}, !.important_emails = {},
                                      !.current_step = "classify_failed",
                                      !.errors = Append(@, "classify_emails")]
              looked_up == wf.state.email_ids # {} /\ db_ok
          IN wf' = [wf EXCEPT !.node = Edge(should_generate_replies(after)),
                              !.state = after,
                              !.analysis = IF looked_up THEN answers ELSE @,
                              !.analyzed = IF looked_up
                                           THEN @ \cup {e \in found : reply[e].requested}
                                           ELSE @]
    /\ UNCHANGED sent
    /\ UNCHANGED <<BM25_AVAILABLE, corpus, bm25_indices, pc, call, cfg, results, stages, args,
                   vector_status, stage_in, stage_out, scorer, outcome, concurrent_vars, build_log>>

\* generate_replies_node, then should_send_replies: generate_reply is invoked
\* for the important emails one after the other, up to the first invocation
\* that raises; a draft is kept for every answer with success
GenerateRepliesNode ==
    /\ wf.node = "generate_replies"
    /\ IF wf.state.important_emails = {}
       THEN LET after == [wf.state EXCEPT !.reply_drafts = {},
                                          !.current_step = "no_replies_needed"]
            IN wf' = [wf EXCEPT !.node = Edge(should_send_replies(after)), !.state = after]
       ELSE \E asked \in (SUBSET wf.state.important_emails) \ {{}}, raised \in BOOLEAN :
            \E drafts \in SUBSET asked :
               LET after ==
                     IF raised
                     THEN [wf.state EXCEPT !.reply_drafts = {},
                                           !.current_step = "reply_generation_failed",
                                           !.errors = Append(@, "generate_replies")]
                     ELSE [wf.state EXCEPT !.reply_drafts = drafts,
                                           !.current_step = "replies_generated"]
               IN /\ asked # wf.state.important_emails => raised
                  /\ wf' = [wf EXCEPT !.node = Edge(should_send_replies(after)),
                                      !.state = after,
                                      !.generated = @ \cup asked]
    /\ UNCHANGED sent
    /\ UNCHANGED <<BM25_AVAILABLE, corpus, bm25_indices, pc, call, cfg, results, stages, args,
                   vector_status, stage_in, stage_out, scorer, outcome, concurrent_vars, build_log>>

\* send_replies_node, then the edge to END: send_email is invoked for the
\* approved replies in order, up to the first invocation that raises
SendRepliesNode ==
    /\ wf.node = "send_replies"
    /\ IF wf.state.approved_replies = <<>>
       THEN /\ wf' = [wf EXCEPT !.node = "end", !.state.current_step = "no_sends_needed"]
            /\ sent' = sent
       ELSE \E k \in 1..Len(RepliesToSend(wf.state)), raised \in BOOLEAN :
               /\ k < Len(RepliesToSend(wf.state)) => raised
               /\ sent' = sent \o SubSeq(RepliesToSend(wf.state), 1, k)
               /\ wf' = IF raised
                        THEN [wf EXCEPT !.node = "end", !.state.current_step = "send_failed",
                                        !.state.errors = Append(@, "send_replies")]
                        ELSE [wf EXCEPT !.node = "end", !.state.current_step = "sent"]
    /\ UNCHANGED <<BM25_AVAILABLE, corpus, bm25_indices, pc, call, cfg, results, stages, args,
                   vector_status, stage_in, stage_out, scorer, outcome, concurrent_vars, build_log>>

\* invoke, or the node function, returns the final state
WorkflowReturn ==
    /\ wf.node = "end"
    /\ wf' = [wf EXCEPT !.node = "none"]
    /\ UNCHANGED sent
    /\ UNCHANGED <<BM25_AVAILABLE, corpus, bm25_indices, pc, call, cfg, results, stages, args,
                   vector_status, stage_in, stage_out, scorer, outcome, concurrent_vars, build_log>>

\* One step of a graph run
GraphStep ==
    \/ FetchEmailsNode
    \/ ClassifyEmailsNode
    \/ GenerateRepliesNode
    \/ SendRepliesNode

NextWorkflow ==
    \/ ProcessNewEmails
    \/ InvokeWithApproved
    \/ CallGenerateRepliesNode
    \/ CallSendRepliesNode
    \/ AnalyzeSingleEmail
    \/ GraphStep
    \/ WorkflowReturn

SpecWorkflow == InitUnit /\ [][NextWorkflow]_vars

\* invoke runs the graph's nodes until END is reached
SpecWorkflowFair == SpecWorkflow /\ WF_vars(GraphStep)

(* _rerank_with_cross_encoder(query, results, top_k), beside advanced_search *)

NearBy(n) == [i \in 1..n |-> Some(2)]

\* cfg is the service's configuration (self.config) while the call runs
CallRerank ==
    /\ pc = "idle"
    /\ \E n \in 0..MaxPool : \E t \in [1..n -> CorpusTexts], top_k \in 1..MaxK,
                               ce_status \in ScorerStatuses :
          LET r == rerank_with_cross_encoder(Pool(t, NearBy(n)), top_k, ce_status)
          IN /\ args' = [top_k |-> top_k]
             /\ stage_in' = Pool(t, NearBy(n))
             /\ stage_out' = r.results
             /\ results' = r.results
             /\ scorer' = [status |-> r.status, asked |-> r.asked]
             /\ outcome' = Returned(r.results)
    /\ \E k \in RerankTopKs : cfg' = [DEFAULT_RAG_CONFIG EXCEPT !.rerank_top_k = k]
    /\ call' = "_rerank_with_cross_encoder"
    /\ stages' = <<"rerank">>
    /\ pc' = "done"
    /\ UNCHANGED <<BM25_AVAILABLE, corpus, bm25_indices, vector_status>>
    /\ UNCHANGED <<concurrent_vars, workflow_vars, build_log>>

\* A full collection of nearby documents that all have text
InitRerank ==
    /\ Init
    /\ Len(corpus) = MaxDocs
    /\ \A i \in 1..Len(corpus) : corpus[i].text # 0 /\ corpus[i].distance = 2

SpecRerank == InitRerank /\ [][Next \/ CallRerank]_vars

(* _apply_mmr(query_embedding, results, lambda_param, top_k) *)

MmrLambdas == {0, 5, DefaultLambda, 10}

QueryEmbeddings == {QueryEmbedding, <<3, 4>>}

CallMmr ==
    /\ pc = "idle"
    /\ \E n \in 0..MaxPool : \E t \in [1..n -> Texts], q \in QueryEmbeddings,
                               lambda10 \in MmrLambdas, top_k \in 1..(MaxK + 1) :
          /\ args' = [query_embedding |-> q, lambda_param |-> lambda10, top_k |-> top_k]
          /\ stage_in' = Pool(t, NearBy(n))
          /\ stage_out' = apply_mmr(q, stage_in', lambda10, top_k)
          /\ results' = stage_out'
          /\ outcome' = Returned(stage_out')
    /\ call' = "_apply_mmr"
    /\ stages' = <<"mmr">>
    /\ pc' = "done"
    /\ UNCHANGED <<BM25_AVAILABLE, corpus, bm25_indices, cfg, vector_status, scorer>>
    /\ UNCHANGED <<concurrent_vars, workflow_vars, build_log>>

SpecMmr == InitUnit /\ [][CallMmr \/ Finish]_vars

----------------------------------------------------------------------------
(* _build_bm25_index called directly, as each hybrid search calls it, one   *)
(* call after the other, while documents are added to the collection.       *)

CallBuildIndex ==
    /\ pc = "idle"
    /\ Len(build_log) < MaxBuilds
    /\ \E status \in {"ok", "missing"}, build_ok \in BOOLEAN :
          LET b == build_bm25_index(BM25_AVAILABLE, bm25_indices, status, build_ok, corpus)
          IN /\ bm25_indices' = b.cache
             /\ outcome' = Returned(b.data)
             /\ build_log' = Append(build_log,
                    build_exit(BM25_AVAILABLE, bm25_indices, status, build_ok, corpus))
    /\ call' = "_build_bm25_index"
    /\ pc' = "done"
    /\ UNCHANGED <<BM25_AVAILABLE, corpus, cfg, results, stages, args, vector_status,
                   stage_in, stage_out, scorer, concurrent_vars, workflow_vars>>

SpecBuild == InitPublish /\ [][CallBuildIndex \/ Finish \/ UpsertDocument]_vars

----------------------------------------------------------------------------
(* Properties of advanced_search *)

LastStage == IF stages = <<>> THEN "none" ELSE stages[Len(stages)]

Ran(stage) == \E i \in 1..Len(stages) : stages[i] = stage

StageRank(stage) ==
    CASE stage = "retrieve" -> 1
      [] stage = "hybrid" -> 2
      [] stage = "threshold" -> 3
      [] stage = "rerank" -> 4
      [] stage = "mmr" -> 5
      [] stage = "truncate" -> 6
      [] OTHER -> 0

InSearch == call = "advanced_search"

Over == InSearch /\ pc = "done"

\* The vector index's own ranking for the query, as candidate dicts
VectorRanking ==
    [i \in 1..Len(corpus) |-> Candidate(corpus[i].id, corpus[i].text, Some(corpus[i].distance))]

ScorerFailed == scorer.status \in {"load_failed", "predict_raised"}

\* C1: in every advanced_search call the stages that run do so in the order
\* retrieve, hybrid, threshold, rerank, mmr, truncate: the log starts with the
\* retrieval, is strictly increasing in that order, a stage whose flag is off
\* is not in it, and once a later stage has run the enabled hybrid, threshold
\* and rerank stages have run before it.
C1_StageOrder ==
    InSearch =>
        /\ stages # <<>> => stages[1] = "retrieve"
        /\ \A i, j \in 1..Len(stages) : i < j => StageRank(stages[i]) < StageRank(stages[j])
        /\ Ran("hybrid") => cfg.use_hybrid
        /\ Ran("threshold") => cfg.use_threshold
        /\ Ran("rerank") => cfg.use_reranking
        /\ Ran("mmr") => cfg.use_mmr
        /\ (stages # <<>> /\ cfg.use_hybrid /\ BM25_AVAILABLE) => Ran("hybrid")
        /\ (cfg.use_threshold /\ (Ran("rerank") \/ Ran("mmr") \/ Ran("truncate")))
              => Ran("threshold")
        /\ (cfg.use_reranking /\ (Ran("mmr") \/ Ran("truncate"))) => Ran("rerank")

C1_AllStagesRan ==
    Over /\ stages = <<"retrieve", "hybrid", "threshold", "rerank", "mmr", "truncate">>

\* C2: with hybrid, threshold, reranking and MMR all disabled, a call whose
\* vector lookup succeeded returns exactly the first final_top_k entries of
\* the vector index's ranking, in the same order.
C2_PlainVectorRanking ==
    (/\ Over
     /\ vector_status = "ok"
     /\ ~cfg.use_hybrid /\ ~cfg.use_threshold /\ ~cfg.use_reranking /\ ~cfg.use_mmr)
        => outcome = Returned(Take(VectorRanking, cfg.final_top_k))

C2_Truncated ==
    /\ Over
    /\ vector_status = "ok"
    /\ ~cfg.use_hybrid /\ ~cfg.use_threshold /\ ~cfg.use_reranking /\ ~cfg.use_mmr
    /\ Len(corpus) > cfg.final_top_k
    /\ \E i \in 1..Len(corpus) : corpus[i].distance > cfg.distance_threshold
    /\ Len(outcome.value) = cfg.final_top_k

\* C7: against a collection with zero documents advanced_search returns an
\* empty list and raises nothing, whatever stages are enabled.
C7_EmptyCorpus ==
    (Over /\ corpus = <<>>) => outcome = Returned(<<>>)

C7_EmptyCorpusSearched ==
    /\ Over
    /\ corpus = <<>>
    /\ vector_status = "ok"
    /\ cfg.use_hybrid /\ BM25_AVAILABLE /\ cfg.use_threshold /\ cfg.use_reranking /\ cfg.use_mmr

\* C8: a failure of the vector path (collection missing, embedding or query
\* raising) ends the call with an error outcome, which the caller can tell
\* from an empty result list.
C8_VectorFailureSurfaced ==
    (Over /\ vector_status \in {"missing", "raised"}) => outcome.kind = "error"

\* C9 (as claimed): when the scorer cannot be loaded or raises, the rerank
\* stage's output is exactly its input list, none dropped.
C9_RerankFailurePassThrough ==
    (InSearch /\ LastStage = "rerank" /\ ScorerFailed) => stage_out = stage_in

\* C9 (amended): when the scorer cannot be loaded or raises, the rerank stage
\* returns the first top_k candidates of its input in input order (top_k is
\* the count advanced_search asked for), nothing is raised, and the call goes
\* on to return a list.
C9_RerankFailurePrefix ==
    /\ (InSearch /\ LastStage = "rerank" /\ ScorerFailed)
          => (stage_out = Take(stage_in, RerankCount(cfg)) /\ outcome.kind # "error")
    /\ (Over /\ Ran("rerank") /\ ScorerFailed)
          => /\ outcome.kind = "list"
             /\ ~Ran("mmr") => outcome.value # <<>>

C9_RerankFailureTruncates ==
    /\ InSearch /\ LastStage = "rerank"
    /\ scorer.status = "predict_raised"
    /\ Len(stage_out) < Len(stage_in)
    /\ stage_out # <<>>

\* C10: if the threshold filter removes every candidate the call is over with
\* an empty list; the rerank and MMR stages never get an empty list, so
\* neither runs after a filter that left nothing.
C10_EmptyAfterThreshold ==
    /\ (InSearch /\ LastStage = "threshold" /\ stage_out = <<>>)
          => (pc = "done" /\ outcome = Returned(<<>>))
    /\ (InSearch /\ LastStage \in {"rerank", "mmr"}) => stage_in # <<>>
    /\ (InSearch /\ pc \in {"step3", "step4"}) => results # <<>>

C10_AllFiltered ==
    /\ InSearch /\ LastStage = "threshold"
    /\ stage_in # <<>> /\ stage_out = <<>>
    /\ cfg.use_reranking /\ cfg.use_mmr
    /\ pc = "done"

----------------------------------------------------------------------------
(* Properties of the stage methods *)

Called(method) == call = method /\ pc = "done"

HasDistance(r) == r.distance # Absent

Position(rs, id) == CHOOSE k \in 1..Len(rs) : rs[k].id = id

Holds(rs, id) == \E k \in 1..Len(rs) : rs[k].id = id

\* C3: after _apply_threshold(results, T) every candidate of the output has
\* a distance <= T, no input candidate with a distance > T is in the output,
\* the output holds every input candidate with a distance <= T, unchanged,
\* and the survivors are in their input order.
C3_ThresholdExact ==
    Called("_apply_threshold") =>
        /\ \A k \in 1..Len(stage_out) :
              /\ HasDistance(stage_out[k])
              /\ stage_out[k].distance[1] <= args.threshold
              /\ stage_out[k].id \in 1..Len(stage_in)
              /\ stage_out[k] = stage_in[stage_out[k].id]
        /\ \A i \in 1..Len(stage_in) :
              (HasDistance(stage_in[i]) /\ stage_in[i].distance[1] > args.threshold)
                  => ~Holds(stage_out, stage_in[i].id)
        /\ \A i \in 1..Len(stage_in) :
              (HasDistance(stage_in[i]) /\ stage_in[i].distance[1] <= args.threshold)
                  => Holds(stage_out, stage_in[i].id)
        /\ \A k, l \in 1..Len(stage_out) : k < l => stage_out[k].id < stage_out[l].id

C3_Scenario ==
    /\ Called("_apply_threshold")
    /\ [i \in 1..Len(stage_in) |-> stage_in[i].distance] = <<<<1>>, <<5>>, <<9>>, <<13>>, <<20>>>>
    /\ args.threshold = 10
    /\ Ids(stage_out) = <<1, 2, 3>>

\* C4: in the output of _hybrid_search with vector_weight > 0 and
\* bm25_weight >= 0, of two candidates of the vector results with equal
\* lexical scores the one with the smaller distance comes first: the farther
\* one is in the output only behind the nearer one.
C4_HybridMonotone ==
    (Called("_hybrid_search") /\ args.vector_weight > 0 /\ args.bm25_weight >= 0) =>
        \A a, b \in 1..Len(stage_in) :
            (/\ stage_in[a].distance[1] < stage_in[b].distance[1]
             /\ Bm25Score(stage_in[a].text) = Bm25Score(stage_in[b].text)
             /\ Holds(stage_out, stage_in[b].id))
                => /\ Holds(stage_out, stage_in[a].id)
                   /\ Position(stage_out, stage_in[a].id) < Position(stage_out, stage_in[b].id)

C4_Reordered ==
    /\ Called("_hybrid_search") /\ args.vector_weight > 0 /\ args.bm25_weight > 0
    /\ bm25_indices # Absent
    /\ Ids(stage_out) # Ids(Take(stage_in, args.n_results))
    /\ \E k, l \in 1..Len(stage_out) :
          /\ k < l
          /\ stage_out[k].distance[1] < stage_out[l].distance[1]
          /\ stage_out[k].bm25_score # Absent
          /\ RatEq(stage_out[k].bm25_score, stage_out[l].bm25_score)

NumWithText(rs) == Cardinality({i \in 1..Len(rs) : HasText(rs[i])})

ScorerAsked == scorer.status \in {"ok", "predict_raised"}

\* C5 (as claimed): when the rerank stage is handed more candidates than
\* rerank_top_k and the scorer is used, the scorer is asked to score exactly
\* rerank_top_k pairs.
C5_ScoresRerankTopK ==
    (LastStage = "rerank" /\ ScorerAsked /\ Len(stage_in) > cfg.rerank_top_k)
        => scorer.asked = cfg.rerank_top_k

\* C5 (amended): the scorer is asked to score one pair per candidate with
\* non-empty text of the list handed to _rerank_with_cross_encoder, whatever
\* rerank_top_k is; inside advanced_search that list never has more than
\* rerank_top_k candidates, so at most rerank_top_k pairs are scored there.
C5_ScoresEveryTextCandidate ==
    LastStage = "rerank" =>
        /\ ScorerAsked => scorer.asked = NumWithText(stage_in)
        /\ ~ScorerAsked => scorer.asked = 0
        /\ InSearch => (Len(stage_in) <= cfg.rerank_top_k /\ scorer.asked <= cfg.rerank_top_k)

C5_PoolAboveRerankTopK ==
    /\ Called("_rerank_with_cross_encoder")
    /\ scorer.status = "ok"
    /\ Len(stage_in) > cfg.rerank_top_k
    /\ scorer.asked = Len(stage_in)

\* relevance(c) of the i-th candidate of the list handed to _apply_mmr
RelevanceOf(i) == cosine_similarity(args.query_embedding, embed_text(stage_in[i].text))

\* C6: _apply_mmr with lambda = 1.0 on a list longer than top_k whose
\* candidates all have text returns top_k candidates in non-increasing
\* relevance to the query, each at least as relevant as every candidate left
\* out, candidates of equal relevance in their input order.
C6_DegenerateMmr ==
    (/\ Called("_apply_mmr")
     /\ args.lambda_param = 10
     /\ Len(stage_in) > args.top_k
     /\ \A i \in 1..Len(stage_in) : HasText(stage_in[i]))
        => /\ Len(stage_out) = args.top_k
           /\ \A k, l \in 1..Len(stage_out) :
                 k < l => \/ RelevanceOf(stage_out[k].id) > RelevanceOf(stage_out[l].id)
                          \/ /\ RelevanceOf(stage_out[k].id) = RelevanceOf(stage_out[l].id)
                             /\ stage_out[k].id < stage_out[l].id
           /\ \A k \in 1..Len(stage_out), i \in 1..Len(stage_in) :
                 ~Holds(stage_out, i) =>
                     \/ RelevanceOf(stage_out[k].id) > RelevanceOf(i)
                     \/ /\ RelevanceOf(stage_out[k].id) = RelevanceOf(i)
                        /\ stage_out[k].id < i

\* The same list and top_k would come out differently with lambda = 0.7
C6_RedundancyWouldMatter ==
    /\ Called("_apply_mmr")
    /\ args.lambda_param = 10
    /\ Len(stage_in) > args.top_k
    /\ \A i \in 1..Len(stage_in) : HasText(stage_in[i])
    /\ Ids(stage_out) # Ids(Take(stage_in, args.top_k))
    /\ Ids(stage_out) # Ids(apply_mmr(args.query_embedding, stage_in, DefaultLambda, args.top_k))

----------------------------------------------------------------------------
(* Properties of the hybrid combiner *)

\* The lexical index the last _hybrid_search call scored with
IndexUsed == bm25_indices[1]

Combined == Called("_hybrid_search") /\ BM25_AVAILABLE /\ bm25_indices # Absent

\* The raw lexical score of document id in the index used (0 when not indexed)
RawLexical(id) ==
    LET hits == {i \in 1..Len(IndexUsed.ids) : IndexUsed.ids[i] = id}
    IN IF hits = {} THEN 0 ELSE Bm25Score(IndexUsed.documents[CHOOSE i \in hits : TRUE])

\* The greatest raw lexical score of the index used
TopLexical ==
    LET raw == {Bm25Score(IndexUsed.documents[i]) : i \in 1..Len(IndexUsed.documents)}
    IN CHOOSE m \in raw : \A x \in raw : x <= m

\* vector_weight / (1 + d) + bm25_weight * lexical / top, as a rational
ExpectedHybrid(d, lexical, top) ==
    IF top = 0 THEN <<args.vector_weight, 10 * (1 + d)>>
    ELSE <<args.vector_weight * top + args.bm25_weight * lexical * (1 + d), 10 * (1 + d) * top>>

\* C11: every document scored by _hybrid_search has hybrid_score =
\* vector_weight / (1 + distance) + bm25_weight * (lexical score / greatest
\* lexical score of the query), the lexical term being 0 for every document
\* when that greatest score is 0.
C11_HybridFormula ==
    Combined =>
        \A k \in 1..Len(stage_out) :
            /\ stage_out[k].hybrid_score # Absent
            /\ RatEq(stage_out[k].hybrid_score,
                     ExpectedHybrid(stage_out[k].distance[1], RawLexical(stage_out[k].id),
                                    TopLexical))
            /\ TopLexical = 0 => stage_out[k].bm25_score[1] = 0

\* Weights 0.7 / 0.3: A at distance 2 without lexical overlap scores 0.233..,
\* B at distance 10 with the greatest lexical score scores 0.363.., B is first
C11_Scenario ==
    /\ Combined
    /\ args.vector_weight = DefaultVectorWeight /\ args.bm25_weight = DefaultBm25Weight
    /\ Len(stage_out) = 2
    /\ LET B == stage_out[1]
           A == stage_out[2]
       IN /\ A.distance = Some(2) /\ RawLexical(A.id) = 0
          /\ B.distance = Some(10) /\ RawLexical(B.id) = TopLexical /\ TopLexical > 0
          /\ 1000 * A.hybrid_score[1] > 233 * A.hybrid_score[2]
          /\ 1000 * A.hybrid_score[1] < 234 * A.hybrid_score[2]
          /\ 1000 * B.hybrid_score[1] > 363 * B.hybrid_score[2]
          /\ 1000 * B.hybrid_score[1] < 364 * B.hybrid_score[2]

\* No lexical scoring for the collection: the backend is not installed, or
\* no index could be produced (nothing is cached after the call)
NoLexical == ~BM25_AVAILABLE \/ bm25_indices = Absent

\* What the vector lookup of the running call gave, whole
VectorFound == IF vector_status = "ok" THEN VectorRanking ELSE <<>>

\* C12: when lexical scoring is unavailable (BM25 not installed, or no index
\* for the collection: missing, empty, build failed) a hybrid-enabled search
\* gives the vector index's ranking in the index's order cut to the requested
\* count, and does not fail; so _hybrid_search called directly, so the first
\* step of advanced_search with use_hybrid.
C12_DegradesToVector ==
    /\ (Called("_hybrid_search") /\ NoLexical)
          => outcome = Returned(Take(VectorFound, args.n_results))
    /\ (InSearch /\ cfg.use_hybrid /\ NoLexical /\ LastStage \in {"retrieve", "hybrid"})
          => /\ stage_out = Take(VectorFound, InitialCount(cfg))
             /\ outcome.kind # "error"

\* A degraded call whose lexical scores would have changed the order
C12_DegradedOrderKept ==
    /\ Called("_hybrid_search") /\ BM25_AVAILABLE /\ bm25_indices = Absent
    /\ vector_status = "ok"
    /\ Len(corpus) > args.n_results
    /\ args.bm25_weight > 0
    /\ stage_out # <<>>
    /\ Ids(stage_out) # Ids(Take(HybridRanking(stage_in, Bm25Index(corpus), args.vector_weight,
                                               args.bm25_weight), args.n_results))

\* C13: a hybrid search that scores with a lexical index scores with the
\* index of the collection as it is now, also after add_user_feedback has
\* changed the collection: never with an index cached before the change.
C13_IndexFollowsCorpus ==
    (Combined /\ vector_status = "ok") => IndexUsed = Bm25Index(corpus)

\* hybrid_results of the last _hybrid_search call, sorted, before the slice
RankedBeforeSlice ==
    HybridRanking(stage_in, IndexUsed, args.vector_weight, args.bm25_weight)

\* C17: the ranking of _hybrid_search before the cut to n_results covers the
\* ids of both sides: every document of the vector results is ranked, and so
\* is every indexed document with a positive lexical score, also when the
\* vector results do not hold it.
C17_UnionOfBothSides ==
    (Combined /\ vector_status = "ok") =>
        /\ \A i \in 1..Len(stage_in) : Holds(RankedBeforeSlice, stage_in[i].id)
        /\ \A i \in 1..Len(IndexUsed.ids) :
              Bm25Score(IndexUsed.documents[i]) > 0 => Holds(RankedBeforeSlice, IndexUsed.ids[i])

\* C18: the output of _hybrid_search is in non-increasing hybrid score, and
\* two documents with equal hybrid score are in ascending id order.
C18_TiesByAscendingId ==
    Combined =>
        \A k, l \in 1..Len(stage_out) :
            k < l => \/ RatGT(stage_out[k].hybrid_score, stage_out[l].hybrid_score)
                     \/ /\ RatEq(stage_out[k].hybrid_score, stage_out[l].hybrid_score)
                        /\ stage_out[k].id < stage_out[l].id

\* C19: _apply_threshold keeps every candidate that carries no distance,
\* whatever the threshold.
C19_NoDistancePasses ==
    Called("_apply_threshold") =>
        \A i \in 1..Len(stage_in) :
            ~HasDistance(stage_in[i]) => Holds(stage_out, stage_in[i].id)

\* C20: with a working scorer, a candidate without text leaves
\* _rerank_with_cross_encoder without a cross_encoder_score and behind every
\* candidate with text of the output.
C20_TextlessLast ==
    (Called("_rerank_with_cross_encoder") /\ scorer.status = "ok") =>
        \A k \in 1..Len(stage_out) :
            ~HasText(stage_out[k]) =>
                /\ stage_out[k].cross_encoder_score = Absent
                /\ \A l \in 1..Len(stage_out) : HasText(stage_out[l]) => l < k

----------------------------------------------------------------------------
(* Properties of the calls running on several threads *)

\* The thread scores, or has scored, with an index tuple
Scoring(t) == threads[t].call = "_hybrid_search" /\ threads[t].bm25_data # Absent

\* C14: under every interleaving of index builds, collection changes and
\* hybrid searches, the tuple a query scores with is the tuple of one build
\* (its BM25 model, document list and id list were built together), so is
\* the tuple in the cache, and the lexical scores a query has computed are
\* those of the documents of the tuple it holds, whatever was published since.
C14_AtomicPublish ==
    /\ bm25_indices # Absent => bm25_indices[1] \in builds
    /\ \A t \in Threads :
          Scoring(t) =>
              /\ threads[t].bm25_data[1] \in builds
              /\ threads[t].pc \in {"combine", "done"} =>
                    threads[t].bm25_scores =
                        [i \in 1..Len(threads[t].bm25_data[1].ids) |->
                            Bm25Score(threads[t].bm25_data[1].documents[i])]

\* A query in flight holds an older tuple than the one published meanwhile
C14_RepublishedInFlight ==
    \E t \in Threads :
        /\ Scoring(t) /\ threads[t].pc = "combine"
        /\ bm25_indices # Absent
        /\ threads[t].bm25_data # bm25_indices
        /\ Cardinality(builds) >= 2

\* advanced_search with configuration c run alone on the collection, from
\* its first step to its return value
SearchAlone(c) ==
    LET found == IF RunsHybrid(c, BM25_AVAILABLE)
                 THEN hybrid_search(BM25_AVAILABLE, "ok", TRUE, corpus, Absent, InitialCount(c),
                                    c.vector_weight, c.bm25_weight).results
                 ELSE search_similar_emails("ok", corpus, InitialCount(c))
        kept == IF RunsThreshold(c) THEN apply_threshold(found, c.distance_threshold) ELSE found
        reranked == IF RunsRerank(c)
                    THEN rerank_with_cross_encoder(kept, RerankCount(c), "ok").results
                    ELSE kept
        picked == IF RunsMmr(c, reranked)
                  THEN apply_mmr(QueryEmbedding, reranked, c.mmr_lambda, c.final_top_k)
                  ELSE reranked
    IN IF EmptyAfterSearch(found) \/ EmptyAfterFilter(kept) THEN Returned(<<>>)
       ELSE Returned(Take(picked, c.final_top_k))

Searching(t) == threads[t].call = "advanced_search"

\* C15: under every interleaving of two advanced_search calls with each
\* other and with set_config, a call keeps the configuration it read at its
\* start through all its stages and returns what it returns when it runs
\* alone with that configuration.
C15_SearchesIndependent ==
    \A t \in Threads :
        Searching(t) =>
            /\ threads[t].cfg = threads[t].cfg_read
            /\ threads[t].pc = "done" => threads[t].outcome = SearchAlone(threads[t].cfg_read)

\* Both calls are over, they ran with different configurations, neither with
\* the configuration the service has now, and they returned different lists
C15_ConfigChangedMeanwhile ==
    /\ \A t \in Threads : Searching(t) /\ threads[t].pc = "done"
    /\ threads[1].cfg_read # threads[2].cfg_read
    /\ \A t \in Threads : threads[t].cfg_read # self_config
    /\ threads[1].outcome # threads[2].outcome
    /\ \A t \in Threads : threads[t].outcome # SearchAlone(self_config)

----------------------------------------------------------------------------
(* Properties of the email-processing workflow *)

\* C16: send_email is invoked only for replies of approved_replies, in their
\* order; in a run whose approved_replies is empty the graph never is at
\* send_replies and send_email is never invoked, whatever fetch,
\* classification and reply generation gave.
C16_SendsOnlyApproved ==
    /\ Len(sent) <= Len(wf.state.approved_replies)
    /\ sent = SubSeq(wf.state.approved_replies, 1, Len(sent))
    /\ (wf.graph /\ wf.state.approved_replies = <<>>)
          => (wf.node # "send_replies" /\ sent = <<>>)
    /\ wf.node \in {"fetch_emails", "classify_emails", "generate_replies", "send_replies"}
          => sent = <<>>

\* send_replies_node has sent both approved replies of the state it was called with
C16_ApprovedSent ==
    /\ wf.node = "end"
    /\ wf.state.current_step = "sent"
    /\ Len(wf.state.approved_replies) = 2
    /\ sent = wf.state.approved_replies

----------------------------------------------------------------------------
(* Properties of the rerank stage *)

Reranked == Called("_rerank_with_cross_encoder") /\ scorer.status = "ok"

\* C21: after a successful rerank every candidate with text carries the
\* score the scorer gave for its own text, the scorer having been given one
\* pair per candidate with text, also when candidates without text come
\* before candidates with text in the input.
C21_OwnScore ==
    Reranked =>
        /\ scorer.asked = NumWithText(stage_in)
        /\ \A k \in 1..Len(stage_out) :
              HasText(stage_out[k]) =>
                  stage_out[k].cross_encoder_score = Some(CrossScore(stage_out[k].text))

\* The rerank stage of a search has just returned without a scorer failure
RerankStageDone == InSearch /\ LastStage = "rerank" /\ scorer.status \in {"ok", "unused"}

----------------------------------------------------------------------------
(* Properties of the MMR stage *)

\* _apply_mmr was called on a pool longer than top_k, so the selection loop ran
MmrSelected == Called("_apply_mmr") /\ Len(stage_in) > args.top_k

\* The MMR score of input candidate i once the first n output candidates are selected
MmrScoreAt(i, n) ==
    LET embs == DocEmbeddings(stage_in)
    IN MmrScore(Relevances(args.query_embedding, embs), Similarities(embs), i,
                SubSeq(Ids(stage_out), 1, n), args.lambda_param)

\* Input candidates with an embedding that are not among the first n output candidates
OpenAt(n) ==
    {i \in 1..Len(stage_in) :
        HasText(stage_in[i]) /\ \A k \in 1..n : stage_out[k].id # i}

\* C23: every MMR iteration selects, among the unselected candidates, one of
\* maximal mmr = lambda * relevance - (1 - lambda) * redundancy; among
\* candidates of equal mmr the one of higher raw relevance is selected, and
\* among those of equal relevance the one with the smaller document id.
C23_TieBreak ==
    MmrSelected =>
        \A k \in 1..Len(stage_out) : \A i \in OpenAt(k - 1) :
            LET pick == stage_out[k].id
            IN \/ MmrScoreAt(pick, k - 1) > MmrScoreAt(i, k - 1)
               \/ /\ MmrScoreAt(pick, k - 1) = MmrScoreAt(i, k - 1)
                  /\ \/ RelevanceOf(pick) > RelevanceOf(i)
                     \/ RelevanceOf(pick) = RelevanceOf(i) /\ pick <= i

\* C24: candidates without an embedding take no part in MMR scoring, and
\* when the candidates with an embedding run out before top_k selections the
\* candidates without one follow the MMR selection in their input order, so
\* that a pool longer than top_k always yields top_k results.
C24_TextlessAppended ==
    MmrSelected =>
        /\ Len(stage_out) = args.top_k
        /\ \A k, l \in 1..Len(stage_out) :
              (k < l /\ ~HasText(stage_out[k])) =>
                  ~HasText(stage_out[l]) /\ stage_out[k].id < stage_out[l].id

\* C25: the MMR selection ends after exactly min(top_k, number of candidates
\* with an embedding) picks; the output has that many candidates, each one
\* an input candidate and no two the same; a pool of at most top_k
\* candidates is returned as it is, in input order.
C25_MmrTerminates ==
    Called("_apply_mmr") =>
        IF Len(stage_in) <= args.top_k
        THEN stage_out = stage_in
        ELSE /\ Len(stage_out) = Min(args.top_k, NumWithText(stage_in))
             /\ \A k \in 1..Len(stage_out) :
                   /\ Holds(stage_in, stage_out[k].id)
                   /\ HasText(stage_out[k])
             /\ \A j, k \in 1..Len(stage_out) : stage_out[j].id = stage_out[k].id => j = k

\* The candidates with an embedding run out before top_k picks
C25_EmbeddingsExhausted ==
    /\ MmrSelected
    /\ args.top_k = 2
    /\ NumWithText(stage_in) = 1
    /\ Len(stage_out) = 1

----------------------------------------------------------------------------
(* Properties of the index build *)

LastBuild == build_log[Len(build_log)]

\* C26: a failure while the lexical index is built reaches the caller of
\* _build_bm25_index as an error, never as the outcome of having no index.
C26_BuildFailureSurfaced ==
    (Called("_build_bm25_index") /\ LastBuild = "raised") => outcome.kind = "error"

\* C27: over a sequence of index builds on one collection, one after the
\* other, the index is built at most once after a build succeeded: every
\* later call is served from the cache.  A build that failed or found the
\* collection empty or missing stores nothing, and the next call builds again
\* instead of being served from the cache.
C27_BuiltOnce ==
    /\ \A i, j \in 1..Len(build_log) :
          (i < j /\ build_log[i] = "built") => build_log[j] = "cached"
    /\ \A j \in 1..Len(build_log) :
          build_log[j] = "cached" => \E i \in 1..(j - 1) : build_log[i] = "built"
    /\ (\A i \in 1..Len(build_log) : build_log[i] # "built") => bm25_indices = Absent

\* A build fails, the next one finds documents and succeeds, the third call
\* is served from the cache
C27_RetriedThenReused ==
    /\ Len(build_log) = 3
    /\ build_log[1] = "raised"
    /\ build_log[2] = "built"
    /\ build_log[3] = "cached"
    /\ bm25_indices # Absent

----------------------------------------------------------------------------
(* Properties of the list advanced_search returns *)

\* What the vector lookup of the running search returned
VectorLookup ==
    search_similar_emails(vector_status, corpus,
                          IF RunsHybrid(cfg, BM25_AVAILABLE) THEN InitialCount(cfg) * 2
                          ELSE InitialCount(cfg))

\* C28: for every configuration with final_top_k >= 1 and every combination
\* of stage flags, the list advanced_search returns has at most final_top_k
\* entries with pairwise distinct ids, every entry is a document the call's
\* vector lookup returned, and with use_threshold on every entry has a
\* distance of at most distance_threshold.
C28_ResultBounds ==
    (Over /\ outcome.kind = "list") =>
        /\ cfg.final_top_k >= 1
        /\ Len(outcome.value) <= cfg.final_top_k
        /\ \A j, k \in 1..Len(outcome.value) :
              outcome.value[j].id = outcome.value[k].id => j = k
        /\ \A k \in 1..Len(outcome.value) : Holds(VectorLookup, outcome.value[k].id)
        /\ cfg.use_threshold =>
              \A k \in 1..Len(outcome.value) :
                  /\ outcome.value[k].distance # Absent
                  /\ outcome.value[k].distance[1] <= cfg.distance_threshold

\* A search with all four stages on returns final_top_k documents out of a
\* larger lookup that also found a document beyond the threshold
C28_FullPipelineCut ==
    /\ Over
    /\ outcome.kind = "list"
    /\ cfg.use_threshold /\ cfg.use_hybrid /\ cfg.use_reranking /\ cfg.use_mmr
    /\ Ran("hybrid") /\ Ran("threshold") /\ Ran("rerank")
    /\ Len(outcome.value) = cfg.final_top_k
    /\ Len(VectorLookup) > cfg.final_top_k
    /\ \E i \in 1..Len(VectorLookup) : VectorLookup[i].distance[1] > cfg.distance_threshold

----------------------------------------------------------------------------
(* Properties of the email-processing workflow *)

\* A graph run is over
RunOver == wf.graph /\ wf.node = "end"

\* The analysis endpoint answers for email e with success
AnswersSuccess(e) == wf.analysis[e].ok /\ wf.analysis[e].success

\* C29: in process_new_emails every fetched email for which the analysis
\* endpoint answers with success has an entry in classifications; each such
\* email with importance_score >= 7 is in important_emails and generate_reply
\* was invoked for it; generate_reply was invoked for no email with
\* importance_score < 7.
C29_ClassifiedAndReplied ==
    (RunOver /\ wf.state.approved_replies = <<>>) =>
        /\ \A e \in DOMAIN wf.analysis :
              AnswersSuccess(e) =>
                 /\ \E c \in wf.state.classifications : c.email_id = e
                 /\ wf.analysis[e].importance_score >= ImportanceThreshold =>
                       e \in wf.state.important_emails /\ e \in wf.generated
        /\ \A e \in wf.generated :
              /\ e \in DOMAIN wf.analysis
              /\ wf.analysis[e].importance_score >= ImportanceThreshold

\* The fetch step of the running graph failed
FetchFailed == wf.graph /\ wf.fetch = "raised"

\* C30: when the fetch step fails the run still ends; no analysis,
\* generate-reply or send endpoint is invoked, email_ids, classifications,
\* important_emails and reply_drafts of the final state are empty, and the
\* message of the fetch error is in its errors list.
C30_FetchFailureEnds ==
    /\ [](FetchFailed =>
            /\ wf.node \in {"classify_emails", "end", "none"}
            /\ wf.analyzed = {} /\ wf.generated = {} /\ sent = <<>>
            /\ wf.state.email_ids = {}
            /\ wf.state.classifications = {}
            /\ wf.state.important_emails = {}
            /\ wf.state.reply_drafts = {}
            /\ \E i \in 1..Len(wf.state.errors) : wf.state.errors[i] = "fetch_emails")
    /\ (FetchFailed /\ wf.node = "classify_emails") ~> (FetchFailed /\ wf.node = "end")

\* A run whose fetch failed is over after the empty classification
C30_EndedAfterFetchFailure ==
    /\ RunOver
    /\ wf.fetch = "raised"
    /\ wf.state.current_step = "classified_empty"
    /\ wf.state.errors = <<"fetch_emails">>

====
